---- MODULE Spec2Model ----
(***************************************************************************)
(* ScriptureScholar: the dual-backend persistence facade (StudyService),   *)
(* the guest trial tracker (GuestTrialService), the admin scan             *)
(* (AdminService), the reply handling of generateStudy, and the page       *)
(* handlers that call them (App.tsx).                                       *)
(*                                                                          *)
(* The specifications share the state:                                      *)
(*   Spec        the facade called directly, with any identity and any     *)
(*               argument, under both backend configurations;               *)
(*   PartialSpec Spec, with update given any partial record;                *)
(*   MirrorSpec  one sequence of facade calls applied to both backends;     *)
(*   AppSpec     the application: sign-in/out and the page handlers, which *)
(*               call the facade with  user?.uid || 'guest';                *)
(*   AdminSpec   the admin page, profiles and roles;                        *)
(*   ReplySpec   generateStudy applied to every reply tried;                *)
(*   GenSpec     the generate flow under well-formed and other replies;     *)
(*   LiveSpec    the generate flow when every external call eventually      *)
(*               returns or fails (weak fairness on each pending await).    *)
(***************************************************************************)
EXTENDS Integers, Sequences, FiniteSets, TLC

\* ------------------------------------------------------------------ bounds
MaxNow == 2         \* largest value the clock takes
MaxDocs == 2        \* most auto-ids addDoc hands out, and most records stored at once
MaxCap == 1         \* largest cap passed to enforceLimit
MaxPending == 2     \* most handleAnalyze calls in flight at once

\* ------------------------------------------------------------ service replies
\* A reply text is a sequence of tokens: single characters (the backtick
\* is written "backtick"), and words (runs of letters) taken whole.
isSpace(c) == c \in {" ", "\n"}

\* a parsed JSON value: a string (text), an object (members: the set of
\* <<key, value>> pairs, one per key) or an array (items)
NoValue == [kind |-> "undefined", text |-> <<>>, members |-> {}, items |-> <<>>]
Str(t) == [kind |-> "string", text |-> t, members |-> {}, items |-> <<>>]
Obj(m) == [kind |-> "object", text |-> <<>>, members |-> m, items |-> <<>>]
Arr(a) == [kind |-> "array", text |-> <<>>, members |-> {}, items |-> a]

\* the required properties of the interface StudyAnalysis (prayer is optional)
RequiredKeys ==
    {"reference", "translation", "scriptureText", "summary", "context", "keyThemes",
     "languageInsights", "crossReferences", "keyLessons", "application"}

\* the three backticks of a markdown code fence
Fence == <<"backtick", "backtick", "backtick">>

\* the least and the greatest element of a non-empty set of positions
First(S) == CHOOSE i \in S : \A j \in S : i <= j
Final(S) == CHOOSE i \in S : \A j \in S : j <= i

\* text.replace(/<fence>\n?/g, ''): the leftmost match goes, with the line
\* break that follows it, and the search goes on after it
RECURSIVE replaceAll(_, _)
replaceAll(s, fence) ==
    LET matches == {i \in 1..(Len(s) - Len(fence) + 1) :
                        SubSeq(s, i, i + Len(fence) - 1) = fence}
    IN  IF matches = {} THEN s
        ELSE LET at   == First(matches)
                 rest == SubSeq(s, at + Len(fence), Len(s))
             IN  SubSeq(s, 1, at - 1)
                 \o replaceAll(IF rest # <<>> /\ Head(rest) = "\n" THEN Tail(rest) ELSE rest,
                               fence)

\* String.prototype.trim
trimStart(s) ==
    LET kept == {i \in 1..Len(s) : ~isSpace(s[i])}
    IN  IF kept = {} THEN <<>> ELSE SubSeq(s, First(kept), Len(s))
trimEnd(s) ==
    LET kept == {i \in 1..Len(s) : ~isSpace(s[i])}
    IN  IF kept = {} THEN <<>> ELSE SubSeq(s, 1, Final(kept))
trim(s) == trimEnd(trimStart(s))

\* JSON.parse, by recursive descent; every step returns [ok, value, rest]
SyntaxError == [ok |-> FALSE, value |-> NoValue, rest |-> <<>>]
Parsed(value, rest) == [ok |-> TRUE, value |-> value, rest |-> rest]

\* the characters of a string up to its closing quote (s starts after the
\* opening quote); a line break inside a string is a syntax error
parseString(s) ==
    LET stops == {i \in 1..Len(s) : s[i] \in {"\"", "\n"}}
    IN  IF stops = {} \/ s[First(stops)] = "\n" THEN SyntaxError
        ELSE Parsed(Str(SubSeq(s, 1, First(stops) - 1)), SubSeq(s, First(stops) + 1, Len(s)))

\* a later member with the same key replaces the earlier one
withMember(members, key, value) ==
    {m \in members : m[1] # key} \cup {<<key, value>>}

RECURSIVE parseValue(_)
RECURSIVE parseMembers(_, _)
RECURSIVE parseItems(_, _)

\* "key": value, then either a comma and another member or the closing brace
parseMembers(s, members) ==
    LET t == trimStart(s)
    IN  IF t = <<>> \/ Head(t) # "\"" THEN SyntaxError
        ELSE LET k  == parseString(Tail(t))
                 t2 == trimStart(k.rest)
             IN  IF ~k.ok \/ t2 = <<>> \/ Head(t2) # ":" THEN SyntaxError
                 ELSE LET parsed == parseValue(Tail(t2))
                          t3     == trimStart(parsed.rest)
                          ms     == withMember(members, k.value.text, parsed.value)
                      IN  IF ~parsed.ok \/ t3 = <<>> THEN SyntaxError
                          ELSE IF Head(t3) = "," THEN parseMembers(Tail(t3), ms)
                          ELSE IF Head(t3) = "}" THEN Parsed(Obj(ms), Tail(t3))
                          ELSE SyntaxError

\* value, then either a comma and another item or the closing bracket
parseItems(s, items) ==
    LET parsed == parseValue(s)
        t2     == trimStart(parsed.rest)
    IN  IF ~parsed.ok \/ t2 = <<>> THEN SyntaxError
        ELSE IF Head(t2) = "," THEN parseItems(Tail(t2), Append(items, parsed.value))
        ELSE IF Head(t2) = "]" THEN Parsed(Arr(Append(items, parsed.value)), Tail(t2))
        ELSE SyntaxError

parseValue(s) ==
    LET t == trimStart(s)
    IN  IF t = <<>> THEN SyntaxError
        ELSE IF Head(t) = "\"" THEN parseString(Tail(t))
        ELSE IF Head(t) = "{"
        THEN LET t2 == trimStart(Tail(t))
             IN  IF t2 # <<>> /\ Head(t2) = "}" THEN Parsed(Obj({}), Tail(t2))
                 ELSE parseMembers(t2, {})
        ELSE IF Head(t) = "["
        THEN LET t2 == trimStart(Tail(t))
             IN  IF t2 # <<>> /\ Head(t2) = "]" THEN Parsed(Arr(<<>>), Tail(t2))
                 ELSE parseItems(t2, <<>>)
        ELSE SyntaxError

\* JSON.parse(text): one value and nothing but white space after it
JSONparse(text) ==
    LET r == parseValue(text)
    IN  IF r.ok /\ trimStart(r.rest) = <<>> THEN Parsed(r.value, <<>>) ELSE SyntaxError

\* cleaning that strips only the fences tagged json
cleanedText_tagOnly(text) ==
    trim(replaceAll(text, Fence \o <<"json">>))

\* text.replace(/```json\n?/g, '').replace(/```\n?/g, '').trim()
cleanedText(text) ==
    trim(replaceAll(replaceAll(text, Fence \o <<"json">>), Fence))

\* What generateStudy does with the reply is [ok |-> TRUE, value |-> ...], the
\* value it returns, or [ok |-> FALSE, ...], the
\* Error("Could not parse study analysis. Please try again.") it throws.

\* generateStudy that answers a parse error with an empty analysis
generateStudy_lenient(reply) ==
    LET text == IF reply = <<>> THEN <<"{", "}">> ELSE reply
        r    == JSONparse(cleanedText(text))
    IN  [ok |-> TRUE, value |-> IF r.ok THEN r.value ELSE Obj({})]

\* generateStudy, from the reply on: response.text || "{}", cleaned, parsed
generateStudy(reply) ==
    LET text == IF reply = <<>> THEN <<"{", "}">> ELSE reply
        r    == JSONparse(cleanedText(text))
    IN  IF r.ok THEN [ok |-> TRUE, value |-> r.value] ELSE [ok |-> FALSE, value |-> NoValue]

\* ------------------------------------------------------------ the replies tried
\* the text of a member's value: context is an object, keyThemes an array,
\* the others strings
valueText(key) ==
    IF key = "context" THEN <<"{", "\"", "author", "\"", ":", "\"", "w", "\"", "}">>
    ELSE IF key = "keyThemes" THEN <<"[", "\"", "w", "\"", ",", "\"", "w", "\"", "]">>
    ELSE <<"\"", "w", "\"">>

\* the members of an object text, compact or with a line break and a space
RECURSIVE membersText(_, _)
membersText(keys, spaced) ==
    IF keys = <<>> THEN <<>>
    ELSE (IF spaced THEN <<"\n">> ELSE <<>>)
         \o <<"\"", Head(keys), "\"", ":">> \o (IF spaced THEN <<" ">> ELSE <<>>)
         \o valueText(Head(keys))
         \o (IF Tail(keys) = <<>> THEN (IF spaced THEN <<"\n">> ELSE <<>>) ELSE <<",">>)
         \o membersText(Tail(keys), spaced)
objectText(keys, spaced) == <<"{">> \o membersText(keys, spaced) \o <<"}">>

KeyOrder ==
    <<"reference", "translation", "scriptureText", "summary", "context", "keyThemes",
      "languageInsights", "crossReferences", "keyLessons", "application">>
FullText == objectText(KeyOrder, FALSE)

\* JSON texts: objects, compact and spaced, with no key, one, two, all but
\* the last, all, and all and prayer; a string; arrays; and an object whose
\* string holds a fence
JsonTexts ==
    {objectText(keys, spaced) :
        keys \in {<<>>, <<"reference">>, <<"reference", "context">>,
                  SubSeq(KeyOrder, 1, Len(KeyOrder) - 1), KeyOrder,
                  KeyOrder \o <<"prayer">>},
        spaced \in BOOLEAN}
    \cup {<<"\"", "w", "\"">>, <<"[", "]">>, valueText("keyThemes"),
          <<"{", "\"", "reference", "\"", ":", "\"">> \o Fence \o <<"json", " ", "w">>
              \o Fence \o <<"\"", "}">>}
\* texts that are cut short or hold a bare word
BrokenTexts ==
    LET text == objectText(<<"reference", "context">>, TRUE)
    IN  {SubSeq(text, 1, n) : n \in 1..(Len(text) - 1)}
        \cup {<<"w">>, <<"w", " ">> \o FullText, FullText \o <<",">>,
              <<"json", "\n">> \o FullText}

\* J wrapped in a code fence, with or without the json tag and the line breaks
wrap(J, tagged, lines) ==
    Fence \o (IF tagged THEN <<"json">> ELSE <<>>) \o (IF lines THEN <<"\n">> ELSE <<>>)
    \o J \o (IF lines THEN <<"\n">> ELSE <<>>) \o Fence

\* the replies of the service: the empty reply, the texts, and the texts fenced
Replies ==
    {<<>>} \cup JsonTexts \cup BrokenTexts
    \cup {wrap(J, tagged, lines) :
            J \in JsonTexts \cup BrokenTexts, tagged \in BOOLEAN, lines \in BOOLEAN}

\* what generateStudy makes of each reply
analysisOf == [reply \in Replies |-> generateStudy(reply)]

\* ------------------------------------------------------------ identities and inputs
Users == {"u1", "u2"}
Identities == Users \cup {"guest"}
Callers == {"guest", "u1"}   \* the identities that call the facade directly
Analyses == {analysisOf[FullText].value}   \* the analysis of a well-formed reply
Notes == {"", "n1"}

\* ------------------------------------------------------------------ values
\* ids: `local-${Date.now()}` is [kind |-> "local", n |-> t]; a Firestore
\* auto-id is [kind |-> "doc", n |-> k].
LocalId(t) == [kind |-> "local", n |-> t]
DocId(k) == [kind |-> "doc", n |-> k]
NullId == [kind |-> "null", n |-> 0]
Undefined == [kind |-> "undefined", n |-> 0]
AllIds == {LocalId(t) : t \in 1..MaxNow} \cup {DocId(k) : k \in 1..MaxDocs}

\* id.startsWith('local-')
startsWithLocal(id) == id.kind = "local"

\* null, where a study is expected
Null == [id |-> NullId, userId |-> "", createdAt |-> 0, analysis |-> NoValue,
         userNotes |-> ""]

\* A Firestore Timestamp, and the value reads convert it to:
\* data.createdAt?.seconds ? data.createdAt.seconds * 1000 : data.createdAt
Timestamp(s) == [seconds |-> s]
createdAtMillis(createdAt) ==
    IF createdAt.seconds # 0 THEN createdAt.seconds * 1000 ELSE createdAt

VARIABLES
    configured,    \* isFirebaseConfigured && db
    localStorage,  \* the browser's key-value store
    remote,        \* Firestore: remote[u] is the collection users/u/history
    now,           \* the time: Date.now() returns it (in milliseconds) and
                   \* serverTimestamp() resolves to it (a Timestamp, in seconds)
    nextDocId,     \* auto-ids handed out so far + 1
    last,          \* the last facade call: its arguments and result
    user,          \* AuthContext user: a uid, or "none"
    route,         \* the HashRouter location, and whether its page has loaded
    ui,            \* Landing's state: loading, error, showSignInModal
    pending,       \* handleAnalyze calls in flight
    guestGenerations, \* generateStudy results obtained with no signed-in user
    trialMarked,   \* markTrialUsed() has been called
    profiles,      \* Firestore: profiles[u] is the document users/u
    admin,         \* AdminDashboard's state: loading, isAdmin, studies
    gen            \* the last generateStudy call: the reply and what came of it

vars == <<configured, localStorage, remote, now, nextDocId,
          last, user, route, ui, pending, guestGenerations, trialMarked,
          profiles, admin, gen>>

store == <<localStorage, remote>>
appVars == <<user, route, ui, pending, guestGenerations, trialMarked, profiles, admin, gen>>

\* ------------------------------------------------------------ localStorage
\* A key holds [has |-> TRUE, v |-> value] once set; getItem of a key never
\* set is null, NoItem.
NoItem == [has |-> FALSE, v |-> 0]
getItem(ls, key) == ls[key]
setItem(ls, key, value) == [ls EXCEPT ![key] = [has |-> TRUE, v |-> value]]

\* JSON.parse(localStorage.getItem('ss_studies') || '[]').  The list holds
\* plain data (strings and finite numbers), which JSON.stringify/parse keep.
localStudiesOf(ls) ==
    IF getItem(ls, "ss_studies").has THEN getItem(ls, "ss_studies").v ELSE <<>>

\* ------------------------------------------------------- GuestTrialService
hasUsedTrial(ls) ==
    IF getItem(ls, "ss_guest_trial_used").has
    THEN getItem(ls, "ss_guest_trial_used").v = "true"
    ELSE FALSE
\* mutant: the flag is not written
markTrialUsed_skipped(ls) == ls
markTrialUsed(ls) == setItem(ls, "ss_guest_trial_used", "true")
getTrialStudyId(ls) ==
    IF getItem(ls, "ss_guest_trial_study_id").has
    THEN getItem(ls, "ss_guest_trial_study_id").v
    ELSE NullId
setTrialStudyId(ls, id) == setItem(ls, "ss_guest_trial_study_id", id)

\* ------------------------------------------------------------ sequences
Range(s) == {s[i] : i \in DOMAIN s}

\* Array.prototype.filter
Filter(s, Test(_)) == SelectSeq(s, Test)

\* Array.prototype.sort with (a, b) => b.createdAt - a.createdAt: a stable
\* sort, newest first.
RECURSIVE InsertDesc(_, _)
InsertDesc(sorted, x) ==
    IF sorted = <<>> THEN <<x>>
    ELSE IF Head(sorted).createdAt >= x.createdAt
         THEN <<Head(sorted)>> \o InsertDesc(Tail(sorted), x)
         ELSE <<x>> \o sorted
RECURSIVE SortDescFrom(_, _)
SortDescFrom(s, acc) ==
    IF s = <<>> THEN acc ELSE SortDescFrom(Tail(s), InsertDesc(acc, Head(s)))
sortByCreatedAtDesc(s) == SortDescFrom(s, <<>>)

\* Array.prototype.slice(from) and slice(0, to), 0-based as in the source
sliceFrom(s, from) == IF from >= Len(s) THEN <<>> ELSE SubSeq(s, from + 1, Len(s))
sliceTo(s, to) == IF to >= Len(s) THEN s ELSE SubSeq(s, 1, to)

\* ------------------------------------------------------------ Firestore
\* A document of users/u/history: [name, data].  The read shape is
\* { id: doc.id, ...data, createdAt: <millis> }: a field `id` inside data
\* overrides doc.id.
fromSnapshot(d) ==
    [id |-> IF d.data.id = Undefined THEN d.name ELSE d.data.id,
     userId |-> d.data.userId,
     createdAt |-> createdAtMillis(d.data.createdAt),
     analysis |-> d.data.analysis,
     userNotes |-> d.data.userNotes]

\* mutant: the query orders oldest first
Newer_ascending(d, e) ==
    \/ d.data.createdAt.seconds < e.data.createdAt.seconds
    \/ /\ d.data.createdAt.seconds = e.data.createdAt.seconds
       /\ d.name.n < e.name.n

\* query(collection, orderBy('createdAt', 'desc')): newest first, equal
\* timestamps in descending document name.
Newer(d, e) ==
    \/ d.data.createdAt.seconds > e.data.createdAt.seconds
    \/ /\ d.data.createdAt.seconds = e.data.createdAt.seconds
       /\ d.name.n > e.name.n
RECURSIVE orderByCreatedAtDesc(_)
orderByCreatedAtDesc(docs) ==
    IF docs = {} THEN <<>>
    ELSE LET d == CHOOSE x \in docs : \A y \in docs \ {x} : Newer(x, y)
         IN <<d>> \o orderByCreatedAtDesc(docs \ {d})

\* the routing conditions of the facade
remoteUsable(userId) == configured /\ userId # "guest"
routesRemote(userId, id) == configured /\ ~startsWithLocal(id) /\ userId # "guest"

\* ------------------------------------------------------------ StudyService
\* Every operation is given  io, what the remote calls it issues do: io.fails
\* (the addDoc / getDocs / getDoc / updateDoc / single deleteDoc rejects) and
\* io.failed (the document names whose deleteDoc inside a Promise.all
\* rejects).  It yields [ok, id, study, list, ls, rem]: whether it returned
\* (ok) or threw, what it returned, and the two stores afterwards.
NoIO == [fails |-> FALSE, failed |-> {}]
Outcome(ok, id, study, list, ls, rem) ==
    [ok |-> ok, id |-> id, study |-> study, list |-> list, ls |-> ls, rem |-> rem]

\* the documents of users/userId/history
history(rem, userId) == rem[userId]
docsNamed(rem, userId, id) == {d \in history(rem, userId) : d.name = id}
withoutNames(rem, userId, names) ==
    [rem EXCEPT ![userId] = {d \in @ : d.name \notin names}]

Thrown == Outcome(FALSE, NullId, Null, <<>>, localStorage, remote)

\* addDoc(collection(db, `users/${userId}/history`), {...study, createdAt: serverTimestamp()})
addDoc(userId, study) ==
    LET id == DocId(nextDocId)
        data == [id |-> Undefined,
                 userId |-> study.userId,
                 createdAt |-> Timestamp(now),
                 analysis |-> study.analysis,
                 userNotes |-> study.userNotes]
    IN Outcome(TRUE, id, Null, <<>>, localStorage,
               [remote EXCEPT ![userId] = @ \cup {[name |-> id, data |-> data]}])

\* mutant: the new record goes to the front of the local list
pushLocal_unshift(study) ==
    LET id == LocalId(now)
        newStudy == [id |-> id,
                     userId |-> study.userId,
                     createdAt |-> study.createdAt,
                     analysis |-> study.analysis,
                     userNotes |-> study.userNotes]
    IN Outcome(TRUE, id, Null, <<>>,
               setItem(localStorage, "ss_studies",
                       <<newStudy>> \o localStudiesOf(localStorage)),
               remote)

\* the local branch of save: push { ...study, id: `local-${Date.now()}` }
pushLocal(study) ==
    LET id == LocalId(now)
        newStudy == [id |-> id,
                     userId |-> study.userId,
                     createdAt |-> study.createdAt,
                     analysis |-> study.analysis,
                     userNotes |-> study.userNotes]
        localStudies == localStudiesOf(localStorage)
    IN Outcome(TRUE, id, Null, <<>>,
               setItem(localStorage, "ss_studies", Append(localStudies, newStudy)),
               remote)

\* mutant: a failed addDoc is masked by a write to the local list
save_masksFailure(userId, study, io) ==
    IF remoteUsable(userId) /\ ~io.fails THEN addDoc(userId, study) ELSE pushLocal(study)

save(userId, study, io) ==
    IF remoteUsable(userId)
    THEN IF io.fails THEN Thrown ELSE addDoc(userId, study)
    ELSE pushLocal(study)

\* the query of getAll, read into a list of SavedStudy
queryHistory(userId) ==
    LET docs == orderByCreatedAtDesc(history(remote, userId))
    IN Outcome(TRUE, NullId, Null, [i \in DOMAIN docs |-> fromSnapshot(docs[i])],
               localStorage, remote)
readLocal == Outcome(TRUE, NullId, Null, localStudiesOf(localStorage), localStorage, remote)

\* mutant: a failed remote query is thrown to the caller
getAll_propagates(userId, io) ==
    IF remoteUsable(userId)
    THEN IF io.fails THEN Thrown ELSE queryHistory(userId)
    ELSE readLocal

getAll(userId, io) ==
    IF remoteUsable(userId) /\ ~io.fails THEN queryHistory(userId) ELSE readLocal

\* Array.prototype.find: the first match, or undefined
find(s, id) ==
    LET hits == {i \in DOMAIN s : s[i].id = id}
    IN IF hits = {} THEN Null ELSE s[CHOOSE i \in hits : \A j \in hits : i <= j]

\* mutant: a failed remote read is thrown to the caller
getById_propagates(userId, id, io) ==
    IF routesRemote(userId, id) /\ io.fails
    THEN Thrown
    ELSE IF routesRemote(userId, id) /\ docsNamed(remote, userId, id) # {}
         THEN Outcome(TRUE, NullId,
                      fromSnapshot(CHOOSE d \in docsNamed(remote, userId, id) : TRUE),
                      <<>>, localStorage, remote)
         ELSE Outcome(TRUE, NullId, find(localStudiesOf(localStorage), id), <<>>,
                      localStorage, remote)

getById(userId, id, io) ==
    IF routesRemote(userId, id) /\ ~io.fails /\ docsNamed(remote, userId, id) # {}
    THEN Outcome(TRUE, NullId, fromSnapshot(CHOOSE d \in docsNamed(remote, userId, id) : TRUE),
                 <<>>, localStorage, remote)
    ELSE Outcome(TRUE, NullId, find(localStudiesOf(localStorage), id), <<>>,
                 localStorage, remote)

\* { ...record, ...data }
\* mutant: the record is replaced by the partial, not merged with it
merge_replaces(record, data) ==
    [f \in DOMAIN record |-> IF f \in DOMAIN data THEN data[f] ELSE Null[f]]

merge(record, data) ==
    [f \in DOMAIN record |-> IF f \in DOMAIN data THEN data[f] ELSE record[f]]

update(userId, id, data, io) ==
    IF routesRemote(userId, id)
    THEN \* updateDoc rejects when the call fails and when no such document exists
         IF io.fails \/ docsNamed(remote, userId, id) = {}
         THEN Thrown
         ELSE Outcome(TRUE, NullId, Null, <<>>, localStorage,
                      [remote EXCEPT ![userId] =
                          {IF d.name = id THEN [d EXCEPT !.data = merge(d.data, data)] ELSE d
                              : d \in @}])
    ELSE LET localStudies == localStudiesOf(localStorage)
             hits == {i \in DOMAIN localStudies : localStudies[i].id = id}
         IN IF hits # {}
            THEN LET index == CHOOSE i \in hits : \A j \in hits : i <= j
                 IN Outcome(TRUE, NullId, Null, <<>>,
                            setItem(localStorage, "ss_studies",
                                    [localStudies EXCEPT ![index] = merge(@, data)]),
                            remote)
            ELSE Outcome(TRUE, NullId, Null, <<>>, localStorage, remote)

remove(userId, id, io) ==
    IF routesRemote(userId, id)
    THEN IF io.fails
         THEN Thrown
         ELSE Outcome(TRUE, NullId, Null, <<>>, localStorage,
                      withoutNames(remote, userId, {id}))
    ELSE LET localStudies == localStudiesOf(localStorage)
             keep(s) == s.id # id
         IN Outcome(TRUE, NullId, Null, <<>>,
                    setItem(localStorage, "ss_studies", Filter(localStudies, keep)),
                    remote)

\* Promise.all over deleteDoc calls: every delete is issued; those that do not
\* reject take effect; the whole rejects when one does.
deleteAll(userId, names, io) ==
    Outcome(names \cap io.failed = {}, NullId, Null, <<>>, localStorage,
            withoutNames(remote, userId, names \ io.failed))

\* mutant: clearing the history clears the whole localStorage
clearAll_clearsStorage(userId, io) ==
    LET cleared == [k \in DOMAIN localStorage |-> NoItem]
    IN IF remoteUsable(userId)
       THEN IF io.fails
            THEN Thrown
            ELSE [deleteAll(userId, {d.name : d \in history(remote, userId)}, io)
                     EXCEPT !.ls = cleared]
       ELSE Outcome(TRUE, NullId, Null, <<>>, cleared, remote)

clearAll(userId, io) ==
    IF remoteUsable(userId)
    THEN IF io.fails
         THEN Thrown
         ELSE deleteAll(userId, {d.name : d \in history(remote, userId)}, io)
    ELSE Outcome(TRUE, NullId, Null, <<>>, setItem(localStorage, "ss_studies", <<>>), remote)

\* mutant: the guard and the slice are off by one, so one record too many is kept
remoteToDelete_keepsOneMore(docs, limit) ==
    IF Len(docs) > limit + 1 THEN sliceFrom(docs, limit + 1) ELSE <<>>

\* mutant: the guard is >= and the slice starts one early, so a call at the
\* cap deletes again
remoteToDelete_deletesAtCap(docs, limit) ==
    IF Len(docs) >= limit
    THEN sliceFrom(docs, IF limit > 0 THEN limit - 1 ELSE 0)
    ELSE <<>>

\* docs.length > limit ? docs.slice(limit) : nothing
remoteToDelete(docs, limit) ==
    IF Len(docs) > limit THEN sliceFrom(docs, limit) ELSE <<>>

\* localStudies.length > limit ? sorted.slice(0, limit) : the list as it is
localToKeep(localStudies, limit) ==
    IF Len(localStudies) > limit
    THEN sliceTo(sortByCreatedAtDesc(localStudies), limit)
    ELSE localStudies

enforceLimit(userId, limit, io) ==
    IF remoteUsable(userId)
    THEN IF io.fails
         THEN Thrown
         ELSE LET docs == orderByCreatedAtDesc(history(remote, userId))
                  toDelete == remoteToDelete(docs, limit)
              IN deleteAll(userId, {toDelete[i].name : i \in DOMAIN toDelete}, io)
    ELSE LET localStudies == localStudiesOf(localStorage)
         IN IF Len(localStudies) > limit
            THEN Outcome(TRUE, NullId, Null, <<>>,
                         setItem(localStorage, "ss_studies", localToKeep(localStudies, limit)),
                         remote)
            ELSE Outcome(TRUE, NullId, Null, <<>>, localStorage, remote)

\* ------------------------------------------------------------ the state
\* The record of the last facade call:
\*   op, userId   the operation and the identity it was called with
\*   arg          the userNotes of the study given to save ("" otherwise)
\*   fails        a remote call it issued was made to fail
\*   ok           it returned (TRUE) or threw (FALSE)
\*   retId        the id save returned
\*   effect       it changed a store, or returned a study or a non-empty list
Call(op, userId, arg, io, out) ==
    [op |-> op, userId |-> userId, arg |-> arg,
     fails |-> io.fails \/ io.failed # {},
     ok |-> out.ok,
     retId |-> out.id,
     effect |-> out.ls # localStorage \/ out.rem # remote
                \/ out.study # Null \/ out.list # <<>>]
NoCall ==
    [op |-> "none", userId |-> "guest", arg |-> "", fails |-> FALSE,
     ok |-> TRUE, retId |-> NullId, effect |-> FALSE]

\* users/u before it is written, and AdminDashboard as it mounts
NoProfile == [exists |-> FALSE, email |-> "", displayName |-> "", role |-> ""]
NoAdmin == [pc |-> "check", loading |-> TRUE, isAdmin |-> FALSE, studies |-> <<>>]
NoGen == [called |-> FALSE, reply |-> <<>>, ok |-> FALSE, value |-> NoValue]
NoUI == [loading |-> FALSE, error |-> "", showSignInModal |-> FALSE]
Page(path) == [path |-> path, id |-> NullId, loaded |-> FALSE]
StudyPage(id) == [path |-> "/study", id |-> id, loaded |-> FALSE]

Init ==
    /\ configured \in BOOLEAN
    /\ localStorage = [k \in {"ss_studies", "ss_guest_trial_used", "ss_guest_trial_study_id"}
                          |-> NoItem]
    /\ remote = [u \in Users |-> {}]
    /\ now = 1
    /\ nextDocId = 1
    /\ last = NoCall
    /\ user = "none"
    /\ route = Page("/")
    /\ ui = NoUI
    /\ pending = <<>>
    /\ guestGenerations = 0
    /\ trialMarked = FALSE
    /\ profiles = [u \in Users |-> NoProfile]
    /\ admin = NoAdmin
    /\ gen = NoGen

\* what the remote calls of one operation may do
IOs(userId, names) ==
    IF remoteUsable(userId)
    THEN {NoIO, [fails |-> TRUE, failed |-> {}]}
         \cup {[fails |-> FALSE, failed |-> F] : F \in SUBSET names \ {{}}}
    ELSE {NoIO}
namesOf(userId) ==
    IF remoteUsable(userId) THEN {d.name : d \in history(remote, userId)} ELSE {}

\* the studies a caller passes to save: the shape handleAnalyze builds, with
\* any notes
Studies(userId) ==
    {[userId |-> userId, createdAt |-> now, analysis |-> a, userNotes |-> n]
        : a \in Analyses, n \in Notes}

\* room left for one more record in the backend save routes userId to
totalStored ==
    Len(localStudiesOf(localStorage))
    + Cardinality(UNION {{<<u, d.name>> : d \in history(remote, u)} : u \in Users})
roomFor(userId) ==
    /\ totalStored < MaxDocs
    /\ remoteUsable(userId) => nextDocId <= MaxDocs

\* the effect of a facade call on the state
Apply(op, userId, arg, io, out) ==
    /\ localStorage' = out.ls
    /\ remote' = out.rem
    /\ last' = Call(op, userId, arg, io, out)

\* ------------------------------------------------------------ the clock
Tick ==
    /\ now < MaxNow
    /\ now' = now + 1
    /\ UNCHANGED <<configured, localStorage, remote, nextDocId, last, appVars>>

\* ------------------------------------------------------------ facade calls
Save(userId, study, io) ==
    /\ roomFor(userId)
    /\ LET out == save(userId, study, io)
       IN /\ Apply("save", userId, study.userNotes, io, out)
          /\ nextDocId' = IF out.rem # remote THEN nextDocId + 1 ELSE nextDocId
    /\ UNCHANGED <<configured, now, appVars>>

GetAll(userId, io) ==
    /\ Apply("getAll", userId, "", io, getAll(userId, io))
    /\ UNCHANGED <<configured, now, nextDocId, appVars>>

GetById(userId, id, io) ==
    /\ Apply("getById", userId, "", io, getById(userId, id, io))
    /\ UNCHANGED <<configured, now, nextDocId, appVars>>

Update(userId, id, data, io) ==
    /\ Apply("update", userId, "", io, update(userId, id, data, io))
    /\ UNCHANGED <<configured, now, nextDocId, appVars>>

Remove(userId, id, io) ==
    /\ Apply("remove", userId, "", io, remove(userId, id, io))
    /\ UNCHANGED <<configured, now, nextDocId, appVars>>

ClearAll(userId, io) ==
    /\ Apply("clearAll", userId, "", io, clearAll(userId, io))
    /\ UNCHANGED <<configured, now, nextDocId, appVars>>

EnforceLimit(userId, limit, io) ==
    /\ Apply("enforceLimit", userId, "", io, enforceLimit(userId, limit, io))
    /\ UNCHANGED <<configured, now, nextDocId, appVars>>

Next ==
    \/ Tick
    \/ \E u \in Callers : \E io \in IOs(u, {}), s \in Studies(u) : Save(u, s, io)
    \/ \E u \in Callers : \E io \in IOs(u, {}) : GetAll(u, io)
    \/ \E u \in Callers, id \in AllIds : \E io \in IOs(u, {}) : GetById(u, id, io)
    \/ \E u \in Callers, id \in AllIds, n \in Notes \ {""} : \E io \in IOs(u, {}) :
          Update(u, id, [userNotes |-> n], io)
    \/ \E u \in Callers, id \in AllIds : \E io \in IOs(u, {}) : Remove(u, id, io)
    \/ \E u \in Callers : \E io \in IOs(u, namesOf(u)) : ClearAll(u, io)
    \/ \E u \in Callers, n \in 0..MaxCap : \E io \in IOs(u, namesOf(u)) :
          EnforceLimit(u, n, io)

Spec == Init /\ [][Next]_vars

\* ------------------------------------------------------------ any partial
\* Partial<SavedStudy>: update takes any subset of the fields, the optional
\* id among them
NewIds == {LocalId(MaxNow), DocId(MaxDocs)}
Partials == {[userNotes |-> n] : n \in Notes \ {""}} \cup {[id |-> x] : x \in NewIds}

PartialNext ==
    \/ Next
    \/ \E u \in Callers, id \in AllIds, data \in Partials : \E io \in IOs(u, {}) :
          Update(u, id, data, io)

PartialSpec == Init /\ [][PartialNext]_vars

\* ------------------------------------------------------------ two backends
\* One caller's calls made against both backends side by side.  Every routing
\* test of the facade is  isFirebaseConfigured && db && userId !== 'guest'
\* (with the id prefix for getById, update and remove): the calls of 'guest' take
\* the branch every identity takes with no remote configured, the calls of
\* "u1" the remote branch, here always healthy.  Each save reads a later
\* clock value than the one before, so the k-th save returns local-k on one
\* side and the k-th auto-id on the other.
MirrorInit == Init /\ configured
Mirror(op, arg, localOut, remoteOut) ==
    /\ localStorage' = localOut.ls
    /\ remote' = remoteOut.rem
    /\ last' = Call(op, "u1", arg, NoIO, remoteOut)

MirrorSave(study) ==
    /\ now <= MaxNow /\ nextDocId <= MaxDocs /\ now = nextDocId
    /\ Mirror("save", study.userNotes, save("guest", study, NoIO), save("u1", study, NoIO))
    /\ now' = now + 1
    /\ nextDocId' = nextDocId + 1
    /\ UNCHANGED <<configured, appVars>>

MirrorGetAll ==
    /\ Mirror("getAll", "", getAll("guest", NoIO), getAll("u1", NoIO))
    /\ UNCHANGED <<configured, now, nextDocId, appVars>>

MirrorGetById(k) ==
    /\ Mirror("getById", "", getById("guest", LocalId(k), NoIO), getById("u1", DocId(k), NoIO))
    /\ UNCHANGED <<configured, now, nextDocId, appVars>>

MirrorUpdate(k, data) ==
    /\ Mirror("update", "", update("guest", LocalId(k), data, NoIO),
              update("u1", DocId(k), data, NoIO))
    /\ UNCHANGED <<configured, now, nextDocId, appVars>>

MirrorRemove(k) ==
    /\ Mirror("remove", "", remove("guest", LocalId(k), NoIO), remove("u1", DocId(k), NoIO))
    /\ UNCHANGED <<configured, now, nextDocId, appVars>>

MirrorClearAll ==
    /\ Mirror("clearAll", "", clearAll("guest", NoIO), clearAll("u1", NoIO))
    /\ UNCHANGED <<configured, now, nextDocId, appVars>>

MirrorEnforceLimit(limit) ==
    /\ Mirror("enforceLimit", "", enforceLimit("guest", limit, NoIO),
              enforceLimit("u1", limit, NoIO))
    /\ UNCHANGED <<configured, now, nextDocId, appVars>>

MirrorNext ==
    \/ \E s \in Studies("u1") : MirrorSave(s)
    \/ MirrorGetAll
    \/ \E k \in 1..MaxDocs : MirrorGetById(k)
    \/ \E k \in 1..MaxDocs, n \in Notes : MirrorUpdate(k, [userNotes |-> n])
    \/ \E k \in 1..MaxDocs : MirrorRemove(k)
    \/ MirrorClearAll
    \/ \E n \in 0..MaxCap : MirrorEnforceLimit(n)

MirrorSpec == MirrorInit /\ [][MirrorNext]_vars

\* ------------------------------------------------------------ user profiles and AdminService
\* syncUserProfile: setDoc(users/uid, {uid, email, displayName, photoURL,
\* lastLogin, role: 'user'}, {merge: true}); a no-op when not configured.
\* Every account has an email; u2 has no display name.
syncUserProfile(u) ==
    IF ~configured THEN profiles
    ELSE [profiles EXCEPT ![u] = [exists |-> TRUE,
                                  email |-> IF u = "u1" THEN "u1@mail" ELSE "u2@mail",
                                  displayName |-> IF u = "u1" THEN "U One" ELSE "",
                                  role |-> "user"]]

\* what the remote calls of the admin scan may do: the user enumeration
\* rejects, or the history query of the users in 'failed' rejects
AdminIOs == [usersFail : BOOLEAN, failed : SUBSET Users]

\* usersSnapshot.docs: the existing documents of users, in document id order
usersSnapshot == SelectSeq(<<"u1", "u2">>, LAMBDA u : profiles[u].exists)

\* one element of allStudies:
\* {study: {id: studyDoc.id, ...data, userId: userDoc.id, createdAt}, userEmail, userName}
adminEntry(owner, d) ==
    [study     |-> [fromSnapshot(d) EXCEPT !.userId = owner],
     userEmail |-> IF profiles[owner].email = "" THEN "Unknown" ELSE profiles[owner].email,
     userName  |-> IF profiles[owner].displayName = "" THEN "Anonymous"
                   ELSE profiles[owner].displayName]

\* historySnapshot.forEach(...push...) for one user, in query order
entriesOf(owner) ==
    LET docs == orderByCreatedAtDesc(history(remote, owner))
    IN  [i \in 1..Len(docs) |-> adminEntry(owner, docs[i])]

\* allStudies.sort((a, b) => b.study.createdAt - a.study.createdAt), stable
InsertEntryDesc(sorted, e) ==
    LET later == {i \in 1..Len(sorted) : sorted[i].study.createdAt < e.study.createdAt}
        at    == IF later = {} THEN Len(sorted) + 1
                 ELSE CHOOSE i \in later : \A j \in later : i <= j
    IN  sliceTo(sorted, at - 1) \o <<e>> \o sliceFrom(sorted, at - 1)

RECURSIVE SortEntriesFrom(_, _, _)
SortEntriesFrom(s, i, acc) ==
    IF i > Len(s) THEN acc ELSE SortEntriesFrom(s, i + 1, InsertEntryDesc(acc, s[i]))

\* mutant: the list is returned in scan order
sortEntriesDesc_scanOrder(s) == s

sortEntriesDesc(s) == SortEntriesFrom(s, 1, <<>>)

\* the body of getAllStudies's try block: the loop over usersSnapshot.docs;
\* the first rejected query throws out of the whole loop
RECURSIVE scanFrom(_, _, _, _)
scanFrom(docs, i, io, allStudies) ==
    IF i > Len(docs) THEN [ok |-> TRUE, list |-> sortEntriesDesc(allStudies)]
    ELSE IF docs[i] \in io.failed THEN [ok |-> FALSE, list |-> <<>>]
    ELSE scanFrom(docs, i + 1, io, allStudies \o entriesOf(docs[i]))

scan(io) ==
    IF io.usersFail THEN [ok |-> FALSE, list |-> <<>>]
    ELSE scanFrom(usersSnapshot, 1, io, <<>>)

\* getAllStudies without its catch block
getAllStudies_noCatch(io) ==
    IF ~configured THEN [ok |-> TRUE, list |-> <<>>] ELSE scan(io)

\* AdminService.getAllStudies: [] when not configured; catch (e) { return [] }
getAllStudies(io) ==
    IF ~configured THEN [ok |-> TRUE, list |-> <<>>]
    ELSE LET r == scan(io)
         IN  IF r.ok THEN r ELSE [ok |-> TRUE, list |-> <<>>]

\* checkIsAdmin without the role comparison
checkIsAdmin_anyProfile(userId, fails) ==
    IF ~configured THEN FALSE
    ELSE IF fails THEN FALSE
    ELSE profiles[userId].exists

\* AdminService.checkIsAdmin: false when not configured or when getDoc rejects,
\* else userDoc.exists() && role === 'admin'
checkIsAdmin(userId, fails) ==
    IF ~configured THEN FALSE
    ELSE IF fails THEN FALSE
    ELSE profiles[userId].exists /\ profiles[userId].role = "admin"

\* ------------------------------------------------------------ the application
AppUsers == {"u1"}                   \* the accounts that sign in
uid(u) == IF u = "none" THEN "guest" ELSE u     \* user?.uid || 'guest'
StudyLimit == 1                      \* the cap handleAnalyze passes to enforceLimit

\* One handleAnalyze call in flight: the user its closure captured, its
\* position, the id save returned, and whether the Landing component that
\* started it is still mounted.
Job(u) == [user |-> u, pc |-> "generate", analysis |-> NoValue, id |-> NullId, live |-> TRUE]
dropAt(s, i) == [j \in 1..(Len(s) - 1) |-> IF j < i THEN s[j] ELSE s[j + 1]]
unmounted(s) == [j \in DOMAIN s |-> [s[j] EXCEPT !.live = FALSE]]

\* leaving a route unmounts its component: the state of Landing is dropped
navigate(r) ==
    /\ route' = r
    /\ ui' = NoUI
    /\ pending' = unmounted(pending)
    /\ admin' = NoAdmin

\* <Link to=...> in the navbar and the pages
GoTo(path) ==
    /\ route.path # path
    /\ navigate(Page(path))
    /\ UNCHANGED <<configured, localStorage, remote, now, nextDocId, last, user,
                   guestGenerations, trialMarked, profiles, gen>>

\* a /study/:id location: a card of the history list or a typed address
OpenStudy(id) ==
    /\ route # StudyPage(id) /\ route.id # id
    /\ navigate(StudyPage(id))
    /\ UNCHANGED <<configured, localStorage, remote, now, nextDocId, last, user,
                   guestGenerations, trialMarked, profiles, gen>>

\* Login.handleGoogle
HandleGoogle(u, synced) ==
    /\ route.path = "/login"
    /\ configured
    /\ user' = u
    /\ IF synced
       THEN /\ profiles' = syncUserProfile(u)
            /\ navigate(Page("/"))
       ELSE UNCHANGED <<profiles, route, ui, pending, admin>>
    /\ UNCHANGED <<configured, localStorage, remote, now, nextDocId, last,
                   guestGenerations, trialMarked, gen>>

\* Navbar.handleLogout
HandleLogout ==
    /\ user # "none"
    /\ user' = "none"
    /\ navigate(Page("/login"))
    /\ UNCHANGED <<configured, localStorage, remote, now, nextDocId, last,
                   guestGenerations, trialMarked, profiles, gen>>

\* room for the record one more handleAnalyze call will save
roomForJob ==
    /\ Len(pending) < MaxPending
    /\ totalStored + Len(pending) < MaxDocs
    /\ nextDocId + Len(pending) <= MaxDocs

\* Landing.handleAnalyze up to its first await
HandleAnalyze ==
    /\ route.path = "/"
    /\ IF user = "none" /\ hasUsedTrial(localStorage)
       THEN /\ ui' = [ui EXCEPT !.showSignInModal = TRUE]
            /\ ui' # ui
            /\ UNCHANGED pending
       ELSE /\ roomForJob
            /\ ui' = [ui EXCEPT !.loading = TRUE, !.error = ""]
            /\ pending' = Append(pending, Job(user))
    /\ UNCHANGED <<configured, localStorage, remote, now, nextDocId, last, user, route,
                   guestGenerations, trialMarked, profiles, admin, gen>>

\* mutant: the catch block without the finally block
failed_noFinally(i) ==
    /\ ui' = IF pending[i].live
             THEN [ui EXCEPT !.error = "Study generation failed."]
             ELSE ui
    /\ pending' = dropAt(pending, i)
    /\ UNCHANGED <<route, admin>>

\* catch and finally of handleAnalyze, in the component that started the call
failed(i) ==
    /\ ui' = IF pending[i].live
             THEN [ui EXCEPT !.error = "Study generation failed.", !.loading = FALSE]
             ELSE ui
    /\ pending' = dropAt(pending, i)
    /\ UNCHANGED <<route, admin>>

\* navigate(`/study/${id}`) and finally
succeeded(i, id) ==
    /\ route' = StudyPage(id)
    /\ ui' = NoUI
    /\ pending' = unmounted(dropAt(pending, i))
    /\ admin' = NoAdmin

studyData(u, analysis) ==
    [userId |-> uid(u), createdAt |-> now, analysis |-> analysis, userNotes |-> ""]

\* the generateStudy call resolves with its value or throws its parse error
generated(reply, analysis) ==
    gen' = [called |-> TRUE, reply |-> reply, ok |-> analysis.ok, value |-> analysis.value]

\* the request to the service rejects
GenerateFails(i) ==
    /\ i \in DOMAIN pending /\ pending[i].pc = "generate"
    /\ failed(i)
    /\ UNCHANGED <<configured, localStorage, remote, now, nextDocId, last, user,
                   guestGenerations, trialMarked, profiles, gen>>

\* the service replies to a guest's call: on a parse error the catch block
\* runs; else the local save returns without yielding to another handler,
\* then markTrialUsed, setTrialStudyId, navigate
GuestGenerated(i, reply) ==
    /\ i \in DOMAIN pending /\ pending[i].pc = "generate" /\ pending[i].user = "none"
    /\ LET analysis == analysisOf[reply]
       IN /\ generated(reply, analysis)
          /\ IF analysis.ok
             THEN /\ LET out == save("guest", studyData("none", analysis.value), NoIO)
                     IN /\ localStorage' = setTrialStudyId(markTrialUsed(out.ls), out.id)
                        /\ remote' = out.rem
                        /\ last' = Call("save", "guest", "", NoIO, out)
                        /\ succeeded(i, out.id)
                  /\ guestGenerations' = guestGenerations + 1
                  /\ trialMarked' = TRUE
             ELSE /\ failed(i)
                  /\ UNCHANGED <<localStorage, remote, last, guestGenerations, trialMarked>>
    /\ UNCHANGED <<configured, now, nextDocId, user, profiles>>

\* the service replies to a signed-in user's call: on a parse error the catch
\* block runs; else addDoc is issued
UserGenerated(i, reply) ==
    /\ i \in DOMAIN pending /\ pending[i].pc = "generate" /\ pending[i].user # "none"
    /\ LET analysis == analysisOf[reply]
       IN /\ generated(reply, analysis)
          /\ IF analysis.ok
             THEN /\ pending' = [pending EXCEPT ![i].pc = "save",
                                                ![i].analysis = analysis.value]
                  /\ UNCHANGED <<route, ui, admin>>
             ELSE failed(i)
    /\ UNCHANGED <<configured, localStorage, remote, now, nextDocId, last, user,
                   guestGenerations, trialMarked, profiles>>

\* StudyService.save returns or throws
Saved(i, io) ==
    /\ i \in DOMAIN pending /\ pending[i].pc = "save"
    /\ LET out == save(uid(pending[i].user), studyData(pending[i].user, pending[i].analysis), io)
       IN /\ Apply("save", uid(pending[i].user), "", io, out)
          /\ nextDocId' = IF out.rem # remote THEN nextDocId + 1 ELSE nextDocId
          /\ IF out.ok
             THEN /\ pending' = [pending EXCEPT ![i].pc = "limit", ![i].id = out.id]
                  /\ UNCHANGED <<route, ui, admin>>
             ELSE failed(i)
    /\ UNCHANGED <<configured, now, user, guestGenerations, trialMarked, profiles, gen>>

\* StudyService.enforceLimit returns or throws
Limited(i, io) ==
    /\ i \in DOMAIN pending /\ pending[i].pc = "limit"
    /\ LET out == enforceLimit(uid(pending[i].user), StudyLimit, io)
       IN /\ Apply("enforceLimit", uid(pending[i].user), "", io, out)
          /\ IF out.ok THEN succeeded(i, pending[i].id) ELSE failed(i)
    /\ UNCHANGED <<configured, now, nextDocId, user, guestGenerations, trialMarked, profiles, gen>>

\* StudyDetail: the effect that fetches the study
StudyDetailFetch(io) ==
    /\ route.path = "/study" /\ ~route.loaded
    /\ LET out == getById(uid(user), route.id, io)
       IN /\ Apply("getById", uid(user), "", io, out)
          /\ route' = IF out.ok /\ out.study # Null
                      THEN [route EXCEPT !.loaded = TRUE]
                      ELSE IF out.ok THEN Page("/history") ELSE route
    /\ UNCHANGED <<configured, now, nextDocId, user, ui, pending,
                   guestGenerations, trialMarked, profiles, admin, gen>>

\* StudyDetail.saveNotes
SaveNotes(notes, io) ==
    /\ route.path = "/study" /\ route.loaded
    /\ Apply("update", uid(user), "", io,
             update(uid(user), route.id, [userNotes |-> notes], io))
    /\ UNCHANGED <<configured, now, nextDocId, appVars>>

\* StudyDetail: the delete button
DeleteStudy(io) ==
    /\ route.path = "/study" /\ route.loaded
    /\ LET out == remove(uid(user), route.id, io)
       IN /\ Apply("remove", uid(user), "", io, out)
          /\ route' = IF out.ok THEN Page("/history") ELSE route
    /\ UNCHANGED <<configured, now, nextDocId, user, ui, pending,
                   guestGenerations, trialMarked, profiles, admin, gen>>

\* History, rendered by AuthRequiredRoute for a signed-in user only
HistoryFetch(io) ==
    /\ route.path = "/history" /\ user # "none" /\ ~route.loaded
    /\ Apply("getAll", uid(user), "", io, getAll(uid(user), io))
    /\ route' = [route EXCEPT !.loaded = TRUE]
    /\ UNCHANGED <<configured, now, nextDocId, user, ui, pending,
                   guestGenerations, trialMarked, profiles, admin, gen>>

\* History.handleClearAll
HandleClearAll(io) ==
    /\ route.path = "/history" /\ user # "none" /\ route.loaded
    /\ Apply("clearAll", uid(user), "", io, clearAll(uid(user), io))
    /\ UNCHANGED <<configured, now, nextDocId, appVars>>

\* ------------------------------------------------------------ the admin page
\* what AdminDashboard renders: the spinner while loading, "Access Denied"
\* when !isAdmin, else the dashboard with the studies
adminView ==
    IF admin.loading THEN "spinner"
    ELSE IF ~admin.isAdmin THEN "denied"
    ELSE "dashboard"

\* AdminDashboard.checkAndFetch up to the result of checkIsAdmin: with no user
\* it navigates to /login; a non-admin stops loading
AdminCheck(fails) ==
    /\ route.path = "/admin"
    /\ admin.pc = "check"
    /\ IF user = "none"
       THEN navigate(Page("/login"))
       ELSE /\ LET adminStatus == checkIsAdmin(user, fails)
               IN admin' = [admin EXCEPT !.isAdmin = adminStatus,
                                         !.loading = adminStatus,
                                         !.pc = IF adminStatus THEN "fetch" ELSE "done"]
            /\ UNCHANGED <<route, ui, pending>>
    /\ UNCHANGED <<configured, localStorage, remote, now, nextDocId, last, user,
                   guestGenerations, trialMarked, profiles, gen>>

\* AdminDashboard.checkAndFetch after checkIsAdmin returned true: setStudies,
\* setLoading(false); a rejected getAllStudies would leave the spinner
AdminFetch(io) ==
    /\ route.path = "/admin"
    /\ admin.pc = "fetch"
    /\ LET allStudies == getAllStudies(io)
       IN admin' = IF allStudies.ok
                   THEN [admin EXCEPT !.studies = allStudies.list,
                                      !.loading = FALSE, !.pc = "done"]
                   ELSE [admin EXCEPT !.pc = "done"]
    /\ UNCHANGED <<configured, localStorage, remote, now, nextDocId, last, user, route, ui,
                   pending, guestGenerations, trialMarked, profiles, gen>>

\* the role field of users/u edited outside the application (syncUserProfile
\* only ever writes 'user')
GrantRole(u, role) ==
    /\ profiles[u].exists
    /\ profiles[u].role # role
    /\ profiles' = [profiles EXCEPT ![u].role = role]
    /\ UNCHANGED <<configured, localStorage, remote, now, nextDocId, last, user, route, ui,
                   pending, guestGenerations, trialMarked, admin, gen>>

AdminNext ==
    \/ Tick
    \/ \E u \in Users : \E s \in Studies(u) : Save(u, s, NoIO)
    \/ \E u \in Users, synced \in BOOLEAN : HandleGoogle(u, synced)
    \/ HandleLogout
    \/ \E path \in {"/login", "/admin"} : GoTo(path)
    \/ \E u \in Users : GrantRole(u, "admin")
    \/ \E fails \in BOOLEAN : AdminCheck(fails)
    \/ \E io \in AdminIOs : AdminFetch(io)

AdminSpec == Init /\ [][AdminNext]_vars

AppNext ==
    \/ Tick
    \/ \E path \in {"/", "/login", "/history"} : GoTo(path)
    \/ \E id \in AllIds : OpenStudy(id)
    \/ \E u \in AppUsers : HandleGoogle(u, TRUE)
    \/ HandleLogout
    \/ HandleAnalyze
    \/ \E i \in DOMAIN pending : GenerateFails(i)
    \/ \E i \in DOMAIN pending : GuestGenerated(i, FullText)
    \/ \E i \in DOMAIN pending : UserGenerated(i, FullText)
    \/ \E i \in DOMAIN pending : \E io \in IOs(uid(pending[i].user), {}) : Saved(i, io)
    \/ \E i \in DOMAIN pending :
          \E io \in IOs(uid(pending[i].user), namesOf(uid(pending[i].user))) : Limited(i, io)
    \/ \E io \in IOs(uid(user), {}) : StudyDetailFetch(io)
    \/ \E n \in Notes \ {""} : \E io \in IOs(uid(user), {}) : SaveNotes(n, io)
    \/ \E io \in IOs(uid(user), {}) : DeleteStudy(io)
    \/ \E io \in IOs(uid(user), {}) : HistoryFetch(io)
    \/ \E io \in IOs(uid(user), namesOf(uid(user))) : HandleClearAll(io)

AppSpec == Init /\ [][AppNext]_vars

\* the await the handleAnalyze call at position i is suspended on settles: the
\* promise of generateStudy, save or enforceLimit resolves or rejects
Settles(i) ==
    /\ i \in DOMAIN pending
    /\ \/ GenerateFails(i)
       \/ GuestGenerated(i, FullText)
       \/ UserGenerated(i, FullText)
       \/ \E io \in IOs(uid(pending[i].user), {}) : Saved(i, io)
       \/ \E io \in IOs(uid(pending[i].user), namesOf(uid(pending[i].user))) : Limited(i, io)

\* the generate flow (sign-in, submits, navigation between the form and the
\* login page, and the calls in flight) when every external call eventually
\* returns or fails
LiveNext ==
    \/ \E path \in {"/", "/login"} : GoTo(path)
    \/ \E u \in AppUsers : HandleGoogle(u, TRUE)
    \/ HandleLogout
    \/ HandleAnalyze
    \/ \E i \in 1..MaxPending : Settles(i)

LiveSpec == Init /\ [][LiveNext]_vars /\ \A i \in 1..MaxPending : WF_vars(Settles(i))

\* ------------------------------------------------------------ generating
\* generateStudy called directly, with any reply
GenerateStudy(reply) ==
    /\ generated(reply, analysisOf[reply])
    /\ UNCHANGED <<configured, localStorage, remote, now, nextDocId, last, user, route, ui,
                   pending, guestGenerations, trialMarked, profiles, admin>>

ReplyNext == \E reply \in Replies : GenerateStudy(reply)

ReplySpec == Init /\ [][ReplyNext]_vars

\* Landing with the service replying with or without a fence, an object
\* short of keys, nothing, or a text cut short: the generate flow of a guest
\* and of a signed-in user
FlowReplies ==
    {FullText, wrap(FullText, TRUE, TRUE), objectText(<<"reference">>, TRUE), <<>>,
     wrap(<<"{", "\n", "\"", "reference">>, FALSE, TRUE)}

GenNext ==
    \/ \E path \in {"/", "/login"} : GoTo(path)
    \/ \E u \in AppUsers : HandleGoogle(u, TRUE)
    \/ HandleAnalyze
    \/ \E i \in DOMAIN pending : GenerateFails(i)
    \/ \E i \in DOMAIN pending : \E reply \in FlowReplies : GuestGenerated(i, reply)
    \/ \E i \in DOMAIN pending : \E reply \in FlowReplies : UserGenerated(i, reply)
    \/ \E i \in DOMAIN pending : \E io \in IOs(uid(pending[i].user), {}) : Saved(i, io)
    \/ \E i \in DOMAIN pending :
          \E io \in IOs(uid(pending[i].user), namesOf(uid(pending[i].user))) : Limited(i, io)

GenSpec == Init /\ [][GenNext]_vars

\* ================================================================ claims
\* the number of records in the backend the facade routes userId to
routedCount(userId) ==
    IF remoteUsable(userId)
    THEN Cardinality(history(remote, userId))
    ELSE Len(localStudiesOf(localStorage))
Min(a, b) == IF a <= b THEN a ELSE b
copies(s, r) == Cardinality({i \in DOMAIN s : s[i] = r})
FailIO == [fails |-> TRUE, failed |-> {}]

\* ---------------------------------------------------------------- C1
\* C1: whenever enforceLimit(identity, N) completes, for any identity,
\* configuration and cap N and after any history (a save in particular), the
\* backend the facade routes the identity to holds at most N studies.
C1_CountWithinCap ==
    [][\A u \in Callers, n \in 0..MaxCap : \A io \in IOs(u, namesOf(u)) :
          (EnforceLimit(u, n, io) /\ enforceLimit(u, n, io).ok) => routedCount(u)' <= n]_vars

\* an enforceLimit that completed, trimmed, and left records behind
C1_Witness ==
    /\ last.op = "enforceLimit" /\ last.ok /\ last.effect
    /\ routedCount(last.userId) >= 1

\* ---------------------------------------------------------------- C2
\* C2: a completed enforceLimit(identity, N) keeps min(N, count) of the
\* records stored before it, adds none, and deletes no record while it keeps
\* an older one.
C2_RemoteKeepsNewest(u, n) ==
    LET before == history(remote, u)
        after == history(remote, u)'
    IN /\ after \subseteq before
       /\ Cardinality(after) = Min(n, Cardinality(before))
       /\ \A d \in before \ after, k \in after :
             k.data.createdAt.seconds >= d.data.createdAt.seconds
C2_LocalKeepsNewest(n) ==
    LET before == localStudiesOf(localStorage)
        after == localStudiesOf(localStorage)'
    IN /\ \A r \in Range(after) : copies(after, r) <= copies(before, r)
       /\ Len(after) = Min(n, Len(before))
       /\ \A d \in Range(before), k \in Range(after) :
             copies(after, d) < copies(before, d) => k.createdAt >= d.createdAt
C2_KeepsNewest ==
    [][\A u \in Callers, n \in 0..MaxCap : \A io \in IOs(u, namesOf(u)) :
          (EnforceLimit(u, n, io) /\ enforceLimit(u, n, io).ok)
          => IF remoteUsable(u) THEN C2_RemoteKeepsNewest(u, n) ELSE C2_LocalKeepsNewest(n)]_vars

\* an enforceLimit that deleted a record and kept one
C2_Witness ==
    /\ last.op = "enforceLimit" /\ last.ok /\ last.effect
    /\ routedCount(last.userId) = MaxCap /\ MaxCap >= 1

\* ---------------------------------------------------------------- C3
\* C3: an enforceLimit(identity, N) called while the stored count is at or
\* under N changes neither store; and once enforceLimit(identity, N) has
\* completed, the same call made again changes neither store.
C3_DeletesNothing(u, n) ==
    \A io \in IOs(u, namesOf(u)) :
        /\ enforceLimit(u, n, io).ls = localStorage
        /\ enforceLimit(u, n, io).rem = remote
C3_Idempotent ==
    [][\A u \in Callers, n \in 0..MaxCap : \A io \in IOs(u, namesOf(u)) :
          EnforceLimit(u, n, io)
          => /\ routedCount(u) <= n => UNCHANGED store
             /\ enforceLimit(u, n, io).ok => C3_DeletesNothing(u, n)']_vars

\* an enforceLimit that completed and trimmed: the state the second call meets
C3_Witness ==
    /\ last.op = "enforceLimit" /\ last.ok /\ last.effect /\ ~last.fails

\* ---------------------------------------------------------------- C4
\* C4 (as claimed): after id = save(identity, study), getById(identity, id)
\* returns the study just saved, carrying that id.
C4_RoundTrip ==
    (last.op = "save" /\ last.ok)
    => LET got == getById(last.userId, last.retId, NoIO).study
       IN /\ got.id = last.retId
          /\ got.userId = last.userId
          /\ got.userNotes = last.arg

\* ---------------------------------------------------------------- C5
\* C5: getById never throws and changes no store; when no record matches the
\* id, or the remote fetch errors and the local list has no match, it
\* returns null; after a completed remove of an id every getById of that id
\* returns null; and when the study page gets null it navigates to /history.
C5_NoMatch(u, id, io) ==
    /\ find(localStudiesOf(localStorage), id) = Null
    /\ (routesRemote(u, id) /\ ~io.fails) => docsNamed(remote, u, id) = {}
C5_Absent(u, id) ==
    \A io \in IOs(u, {}) :
        getById(u, id, io).ok /\ getById(u, id, io).study = Null
C5_GetByIdReturns ==
    \A u \in Callers, id \in AllIds : \A io \in IOs(u, {}) :
        LET out == getById(u, id, io)
        IN /\ out.ok
           /\ out.ls = localStorage /\ out.rem = remote
           /\ C5_NoMatch(u, id, io) => out.study = Null
C5_PageStep ==
    /\ \A io \in IOs(uid(user), {}) :
          (StudyDetailFetch(io) /\ getById(uid(user), route.id, io).study = Null)
          => route' = Page("/history")
    /\ \A id \in AllIds : \A io \in IOs(uid(user), {}) :
          (DeleteStudy(io) /\ id = route.id /\ remove(uid(user), id, io).ok)
          => C5_Absent(uid(user), id)' /\ route' = Page("/history")
C5_AbsenceNotError == []C5_GetByIdReturns /\ [][C5_PageStep]_vars

\* the study page asked for a study, the remote fetch errored while the
\* user had remote records, getById returned null and the page went to
\* /history
C5_Witness ==
    /\ last.op = "getById" /\ last.fails /\ last.ok /\ ~last.effect
    /\ history(remote, last.userId) # {}
    /\ route = Page("/history")

\* ---------------------------------------------------------------- C6
\* C6 (as claimed): after clearAll(identity) has completed, getAll(identity)
\* returns an empty list, also when its remote read fails.
C6_ClearThenEmpty ==
    (last.op = "clearAll" /\ last.ok)
    => \A io \in IOs(last.userId, {}) : getAll(last.userId, io).list = <<>>

\* ---------------------------------------------------------------- C7
\* C7: once markTrialUsed has been called, hasUsedTrial() is true in every
\* later state of the application, and no step of the application turns
\* hasUsedTrial() from true to false.
C7_FlagKept == hasUsedTrial(localStorage) => hasUsedTrial(localStorage)'
C7_TrialFlagMonotone ==
    [](trialMarked => hasUsedTrial(localStorage)) /\ [][C7_FlagKept]_vars

\* the trial was used, then a user signed in, generated, was trimmed and
\* cleared the history
C7_Witness ==
    /\ trialMarked /\ user # "none"
    /\ last.op = "clearAll" /\ last.ok
    /\ nextDocId > 1

\* ---------------------------------------------------------------- C8
\* C8 (as claimed): a browser with no signed-in user never obtains a second
\* generation.
C8_OneGuestGeneration == guestGenerations <= 1

\* ---------------------------------------------------------------- C9
\* C9: getAll never throws and changes no store; with the remote usable and
\* its query succeeding it returns exactly that identity's remote records,
\* newest first; with the query failing, or the remote not usable, it
\* returns the local list.
C9_RemoteList(u, list) ==
    /\ Len(list) = Cardinality(history(remote, u))
    /\ \A d \in history(remote, u) : \E i \in DOMAIN list : list[i] = fromSnapshot(d)
    /\ \A i, j \in DOMAIN list : i < j => list[i].createdAt >= list[j].createdAt
C9_GetAllFallsBack ==
    \A u \in Callers : \A io \in IOs(u, {}) :
        LET out == getAll(u, io)
        IN /\ out.ok
           /\ out.ls = localStorage /\ out.rem = remote
           /\ IF remoteUsable(u) /\ ~io.fails
              THEN C9_RemoteList(u, out.list)
              ELSE out.list = localStudiesOf(localStorage)

\* a getAll whose remote query failed, with records in the remote history,
\* and that returned a non-empty local list
C9_Witness ==
    /\ last.op = "getAll" /\ last.fails /\ last.ok /\ last.effect
    /\ history(remote, last.userId) # {}

\* ---------------------------------------------------------------- C10
\* C10: with the remote usable, a save, an update of a non-local id or a
\* remove of a non-local id whose remote call fails throws to its caller and
\* leaves the local list as it was.
C10_Failed == ~last'.ok /\ localStorage' = localStorage
C10_WriteFailuresPropagate ==
    [][\A u \in Callers : remoteUsable(u) =>
          /\ \A s \in Studies(u) : Save(u, s, FailIO) => C10_Failed
          /\ \A id \in AllIds, n \in Notes : ~startsWithLocal(id) =>
                /\ Update(u, id, [userNotes |-> n], FailIO) => C10_Failed
                /\ Remove(u, id, FailIO) => C10_Failed]_vars

\* a remote write that failed and threw, with studies in the local list
C10_Witness ==
    /\ last.op \in {"save", "update", "remove"} /\ last.fails /\ ~last.ok
    /\ localStudiesOf(localStorage) # <<>>

\* ---------------------------------------------------------------- C11
\* C11 (as claimed): every stored study, whichever identity saved it, is
\* found by getById called with its id under every identity (the saving
\* one, guest, or another user), the remote being healthy.
C11_RoutingSurvives ==
    /\ \A owner \in Users : \A d \in history(remote, owner) : \A u \in Identities :
          getById(u, d.name, NoIO).study # Null
    /\ \A i \in DOMAIN localStudiesOf(localStorage) : \A u \in Identities :
          getById(u, localStudiesOf(localStorage)[i].id, NoIO).study # Null

\* ---------------------------------------------------------------- C12
\* C12 (as claimed): every read of a stored record carries the id save
\* returned for it (remote: the document's name; local: the id the record
\* was pushed with), whatever updates are made to it.
C12_RemoteIdIsName ==
    \A owner \in Users : \A d \in history(remote, owner) : fromSnapshot(d).id = d.name
C12_LocalIdsKept ==
    last'.op = "update"
    => /\ Len(localStudiesOf(localStorage)') = Len(localStudiesOf(localStorage))
       /\ \A i \in DOMAIN localStudiesOf(localStorage) :
             localStudiesOf(localStorage)'[i].id = localStudiesOf(localStorage)[i].id
C12_IdStable == []C12_RemoteIdIsName /\ [][C12_LocalIdsKept]_vars

\* ---------------------------------------------------------------- C13
\* C13 (as claimed): when the enumeration of the user profiles succeeds and
\* the history query of some users fails, getAllStudies still returns the
\* studies of every listed user whose query succeeded.
C13_Listed(owner, list) ==
    \A d \in history(remote, owner) :
        \E i \in DOMAIN list :
            /\ list[i].study.userId = owner
            /\ list[i].study.id = fromSnapshot(d).id
C13_PartialFailureIsolated ==
    \A io \in AdminIOs :
        ~io.usersFail =>
            \A owner \in Range(usersSnapshot) \ io.failed :
                C13_Listed(owner, getAllStudies(io).list)

\* ---------------------------------------------------------------- C14
\* C14: getAllStudies never throws: whatever the remote calls do it returns a
\* list, and the list is empty when the remote is not configured, when the
\* user enumeration fails or when the history query of a listed user fails.
C14_TopLevelFailure(io) ==
    \/ ~configured
    \/ io.usersFail
    \/ Range(usersSnapshot) \cap io.failed # {}
C14_NeverThrows ==
    \A io \in AdminIOs :
        /\ getAllStudies(io).ok
        /\ C14_TopLevelFailure(io) => getAllStudies(io).list = <<>>
\* the dashboard of an admin has fetched an empty list while a listed user
\* has studies: the scan failed and the failure was swallowed
C14_Witness ==
    /\ route.path = "/admin"
    /\ admin.pc = "done"
    /\ adminView = "dashboard"
    /\ admin.studies = <<>>
    /\ \E u \in Range(usersSnapshot) : history(remote, u) # {}

\* ---------------------------------------------------------------- C15
\* the identity the admin page is opened with lacks the admin role: nobody is
\* signed in (always so when the remote is not configured), the role lookup
\* fails, the profile is missing, or its role is not 'admin'
C15_LacksAdmin(fails) ==
    \/ user = "none"
    \/ ~configured
    \/ fails
    \/ ~profiles[user].exists
    \/ profiles[user].role # "admin"
\* C15 (as claimed): for every identity that lacks the admin role, no
\* signed-in user included, the admin view ends in the access-denied
\* presentation and shows no studies.
C15_AlwaysDenied ==
    [][\A fails \in BOOLEAN :
          (AdminCheck(fails) /\ C15_LacksAdmin(fails))
          => (route' = route /\ adminView' = "denied" /\ admin'.studies = <<>>)]_vars
\* C15 (amended): a signed-in identity that lacks the admin role ends in the
\* access-denied presentation with no studies fetched; with no signed-in user
\* the admin page redirects to /login instead; and the page fetches or shows
\* studies only for a signed-in user whose profile role is 'admin'.
C15_Step ==
    \A fails \in BOOLEAN :
        (AdminCheck(fails) /\ C15_LacksAdmin(fails))
        => IF user = "none"
           THEN route' = Page("/login") /\ admin' = NoAdmin
           ELSE /\ route' = route
                /\ adminView' = "denied"
                /\ admin'.pc = "done"
                /\ admin'.studies = <<>>
C15_StudiesOnlyForAdmins ==
    (admin.pc = "fetch" \/ admin.studies # <<>> \/ adminView = "dashboard")
    => /\ route.path = "/admin"
       /\ user # "none"
       /\ profiles[user].exists
       /\ profiles[user].role = "admin"
C15_DeniedOrRedirected == []C15_StudiesOnlyForAdmins /\ [][C15_Step]_vars
\* a signed-in non-admin is shown "Access Denied" while the cross-user scan
\* would succeed and return studies
C15_Witness ==
    /\ route.path = "/admin"
    /\ user # "none"
    /\ adminView = "denied"
    /\ admin.studies = <<>>
    /\ getAllStudies([usersFail |-> FALSE, failed |-> {}]).list # <<>>

\* ---------------------------------------------------------------- C16
\* the texts tried that JSON.parse accepts as they are
ValidJson == {t \in JsonTexts \cup BrokenTexts : JSONparse(t).ok}
\* C16: for every valid JSON text J, a reply that is J inside a code fence
\* (tagged json or not, with or without line breaks) yields the value that
\* the reply J alone yields.
C16_FencesTransparent ==
    \A J \in ValidJson : \A tagged \in BOOLEAN, lines \in BOOLEAN :
        (gen.called /\ gen.reply = wrap(J, tagged, lines))
        => /\ gen.ok
           /\ generateStudy(J).ok
           /\ gen.value = generateStudy(J).value
\* a complete analysis was returned for a reply in an untagged fence
C16_Witness ==
    /\ gen.called /\ gen.ok
    /\ gen.reply = wrap(FullText, FALSE, TRUE)
    /\ gen.value = analysisOf[FullText].value

\* ---------------------------------------------------------------- C17
\* the reply is not valid JSON once the fences are stripped
C17_Invalid(reply) == reply # <<>> /\ ~JSONparse(cleanedText(reply)).ok
\* what handleAnalyze leaves behind when job i fails: generateStudy threw,
\* nothing is saved or marked, the route stays, the job is over, and the
\* Landing that started it shows the error and stops loading
C17_Failure(i) ==
    /\ gen'.called /\ ~gen'.ok
    /\ localStorage' = localStorage
    /\ remote' = remote
    /\ route' = route
    /\ guestGenerations' = guestGenerations
    /\ pending' = dropAt(pending, i)
    /\ pending[i].live => (ui'.error # "" /\ ~ui'.loading)
C18_HasRequiredKeys(value) ==
    /\ value.kind = "object"
    /\ \A key \in RequiredKeys : \E member \in value.members : member[1] = <<key>>
\* C18 (as claimed): generateStudy returns a value only when the reply
\* carries every required key, so no stored study lacks a required field.
C18_OnlyStudyAnalysisShape ==
    /\ (gen.called /\ gen.ok) => C18_HasRequiredKeys(gen.value)
    /\ \A i \in DOMAIN localStudiesOf(localStorage) :
          C18_HasRequiredKeys(localStudiesOf(localStorage)[i].analysis)
    /\ \A u \in Users : \A d \in history(remote, u) : C18_HasRequiredKeys(d.data.analysis)

\* ---------------------------------------------------------------- C19
\* C19 (as claimed): after the same calls, the local backend and the healthy
\* remote backend show the caller the same results up to ids and
\* timestamps: getAll lists the same records in the same order, and getById
\* of the k-th saved record is absent on one side exactly when it is on
\* the other.
C19_SameRecord(l, r) ==
    /\ l.id.n = r.id.n
    /\ l.userId = r.userId /\ l.analysis = r.analysis /\ l.userNotes = r.userNotes
C19_SameResults ==
    LET L == getAll("guest", NoIO).list
        R == getAll("u1", NoIO).list
    IN /\ Len(L) = Len(R)
       /\ \A i \in DOMAIN L : i \in DOMAIN R => C19_SameRecord(L[i], R[i])
       /\ \A k \in 1..MaxDocs :
             (getById("guest", LocalId(k), NoIO).study = Null)
             <=> (getById("u1", DocId(k), NoIO).study = Null)

\* ---------------------------------------------------------------- C20
\* C20 (as claimed): a completed remove(identity, id) of an id stored in the
\* routed backend removes exactly one record, the one with that id, and
\* leaves every other record of both backends as it was.
C20_Stored(u, id) ==
    IF routesRemote(u, id)
    THEN docsNamed(remote, u, id) # {}
    ELSE find(localStudiesOf(localStorage), id) # Null
C20_OneRemoved(u, id) ==
    IF routesRemote(u, id)
    THEN /\ localStorage' = localStorage
         /\ Cardinality(docsNamed(remote, u, id)) = 1
         /\ remote' = [remote EXCEPT ![u] = @ \ docsNamed(remote, u, id)]
    ELSE /\ remote' = remote
         /\ \E k \in DOMAIN localStudiesOf(localStorage) :
               /\ localStudiesOf(localStorage)[k].id = id
               /\ localStudiesOf(localStorage)' = dropAt(localStudiesOf(localStorage), k)
C20_RemovesExactlyOne ==
    [][\A u \in Callers, id \in AllIds : \A io \in IOs(u, {}) :
          (Remove(u, id, io) /\ remove(u, id, io).ok /\ C20_Stored(u, id))
          => C20_OneRemoved(u, id)]_vars

\* ---------------------------------------------------------------- C21
\* what update(u, id, {userNotes: n}) leaves behind when it returns: in the
\* backend it is routed to, the record it finds under id has userNotes n and
\* is otherwise as it was, at the place it was; every other record, and the
\* other backend, are as they were
C21_NotesSet(u, id, n) ==
    IF routesRemote(u, id)
    THEN /\ localStorage' = localStorage
         /\ remote' = [remote EXCEPT ![u] =
                          {IF d.name = id THEN [d EXCEPT !.data.userNotes = n] ELSE d : d \in @}]
    ELSE /\ remote' = remote
         /\ LET list == localStudiesOf(localStorage)
                hits == {k \in DOMAIN list : list[k].id = id}
            IN  IF hits = {} THEN localStorage' = localStorage
                ELSE localStorage' =
                        setItem(localStorage, "ss_studies",
                                [list EXCEPT ![First(hits)].userNotes = n])
\* no step changes the analysis (or the creation time) stored under a name
\* or a local id that is still there after it
C21_AnalysisKept ==
    /\ \A u \in Users : \A d \in history(remote, u) : \A e \in history(remote, u)' :
          e.name = d.name => /\ e.data.analysis = d.data.analysis
                             /\ fromSnapshot(e).analysis = fromSnapshot(d).analysis
                             /\ e.data.createdAt = d.data.createdAt
    /\ LET list == localStudiesOf(localStorage)
           next == localStudiesOf(localStorage)'
       IN  \A k \in DOMAIN next :
              \/ \E j \in DOMAIN list : /\ list[j].id = next[k].id
                                        /\ list[j].analysis = next[k].analysis
                                        /\ list[j].createdAt = next[k].createdAt
              \/ last'.op = "save" /\ k = Len(next) /\ Len(next) = Len(list) + 1
\* C21: saving notes changes only the notes, and the analysis of a stored
\* study stays what it was for as long as the study is stored.
C21_NotesOnly ==
    [][/\ \A u \in Callers, id \in AllIds, n \in Notes \ {""} : \A io \in IOs(u, {}) :
             (Update(u, id, [userNotes |-> n], io) /\ update(u, id, [userNotes |-> n], io).ok)
             => C21_NotesSet(u, id, n)
       /\ C21_AnalysisKept]_vars
\* notes were saved on one of two local records and the other has none
C21_Witness ==
    /\ last.op = "update" /\ last.ok /\ last.effect
    /\ \E j, k \in DOMAIN localStudiesOf(localStorage) :
          /\ localStudiesOf(localStorage)[j].userNotes = "n1"
          /\ localStudiesOf(localStorage)[k].userNotes = ""
          /\ localStudiesOf(localStorage)[k].analysis = analysisOf[FullText].value

\* ---------------------------------------------------------------- C22
\* what a save(u, s) that returned id leaves behind: one more document, named
\* id, under users/u/history and nothing else changed; or one more record,
\* with the 'local-' id it returned, at the end of the local list and nothing
\* else changed
C22_OneAdded(u, id) ==
    IF remoteUsable(u)
    THEN /\ localStorage' = localStorage
         /\ \A w \in Users \ {u} : history(remote, w)' = history(remote, w)
         /\ \E d \in history(remote, u)' :
               /\ d \notin history(remote, u)
               /\ history(remote, u)' = history(remote, u) \cup {d}
               /\ d.name = id /\ fromSnapshot(d).id = id
    ELSE /\ remote' = remote
         /\ startsWithLocal(id)
         /\ \E r \in Range(localStudiesOf(localStorage)') :
               /\ r.id = id
               /\ localStorage' = setItem(localStorage, "ss_studies",
                                          Append(localStudiesOf(localStorage), r))
\* C22: a save that returns writes to exactly one place, and returns the id
\* of the record it added.
C22_SaveWritesOnePlace ==
    [][\A u \in Callers : \A io \in IOs(u, {}), study \in Studies(u) :
          (Save(u, study, io) /\ save(u, study, io).ok)
          => C22_OneAdded(u, save(u, study, io).id)]_vars
\* a save for a signed-in user returned a document id while the local list
\* holds a guest's record
C22_Witness ==
    /\ last.op = "save" /\ last.ok /\ last.userId = "u1"
    /\ docsNamed(remote, "u1", last.retId) # {}
    /\ Len(localStudiesOf(localStorage)) = 1

\* ---------------------------------------------------------------- C23
\* the entry getAllStudies builds for document d of users/owner/history: the
\* study as read, owned by owner, with the owner's email and display name
\* ('Unknown' / 'Anonymous' when the profile has none)
C23_EntryOf(owner, d) ==
    [study     |-> [id |-> d.name, userId |-> owner,
                    createdAt |-> d.data.createdAt.seconds * 1000,
                    analysis |-> d.data.analysis, userNotes |-> d.data.userNotes],
     userEmail |-> IF profiles[owner].email = "" THEN "Unknown" ELSE profiles[owner].email,
     userName  |-> IF profiles[owner].displayName = "" THEN "Anonymous"
                   ELSE profiles[owner].displayName]
C23_Owned == {<<owner, d>> : owner \in {u \in Users : profiles[u].exists},
                             d \in UNION {history(remote, u) : u \in Users}}
C23_Complete(list) ==
    LET studies == {od \in C23_Owned : od[2] \in history(remote, od[1])}
    IN  /\ Len(list) = Cardinality(studies)
        /\ \A od \in studies : \E i \in DOMAIN list : list[i] = C23_EntryOf(od[1], od[2])
        /\ \A i \in DOMAIN list : \E od \in studies : list[i] = C23_EntryOf(od[1], od[2])
        /\ \A i, j \in DOMAIN list :
              i < j => list[i].study.createdAt >= list[j].study.createdAt
\* C23: when every query succeeds getAllStudies returns exactly one entry per
\* study of every user profile, annotated with its owner, newest first.
C23_AllStudiesListed ==
    configured =>
        \A io \in AdminIOs :
            (~io.usersFail /\ Range(usersSnapshot) \cap io.failed = {})
            => C23_Complete(getAllStudies(io).list)
\* the dashboard shows two fetched studies of two users, the newer one, of
\* the user enumerated last, first
C23_Witness ==
    /\ route.path = "/admin"
    /\ admin.pc = "done"
    /\ Len(admin.studies) = 2
    /\ admin.studies[1].study.userId = "u2"
    /\ admin.studies[1].userName = "Anonymous"
    /\ admin.studies[2].study.userId = "u1"
    /\ admin.studies[2].userEmail = "u1@mail"
    /\ admin.studies[1].study.createdAt > admin.studies[2].study.createdAt

\* ---------------------------------------------------------------- C24
\* C24: at most one generation is in flight: of the handleAnalyze calls the
\* mounted form has started, at most one has not completed.
C24_OneInFlight ==
    Cardinality({i \in DOMAIN pending : pending[i].live}) <= 1

\* ---------------------------------------------------------------- C25
\* the step completes the handleAnalyze call at position i
C25_Ends(i) ==
    /\ Len(pending') = Len(pending) - 1
    /\ pending' \in {dropAt(pending, i), unmounted(dropAt(pending, i))}
\* a study read under id by the identity of call i after the step
C25_Persisted(i, id) ==
    LET u == uid(pending[i].user)
    IN  \/ u \in Users /\ docsNamed(remote', u, id) # {}
        \/ \E k \in DOMAIN localStudiesOf(localStorage') :
              localStudiesOf(localStorage')[k].id = id
\* outcome (a): the study the call saved is persisted, no error is shown and
\* the route is /study/<its id>
C25_Success(i) ==
    LET id == IF pending[i].user = "none" THEN last'.retId ELSE pending[i].id
    IN  /\ id # NullId
        /\ C25_Persisted(i, id)
        /\ ui'.error = ""
        /\ route' = StudyPage(id)
\* outcome (b): the failure message is shown by the form that started the
\* call, nothing the call saved remains and the trial keys are as before
C25_Failure(i) ==
    /\ pending[i].live => ui'.error = "Study generation failed."
    /\ pending[i].id # NullId => ~C25_Persisted(i, pending[i].id)
    /\ Len(localStudiesOf(localStorage)') <= Len(localStudiesOf(localStorage))
    /\ \A u \in Users : history(remote, u)' \subseteq history(remote, u)
    /\ hasUsedTrial(localStorage)' = hasUsedTrial(localStorage)
    /\ getTrialStudyId(localStorage)' = getTrialStudyId(localStorage)
\* C25: every generate action ends with its study persisted and shown, or
\* with the failure message and nothing persisted.
C25_TwoOutcomes ==
    [][\A i \in DOMAIN pending : C25_Ends(i) => (C25_Success(i) \/ C25_Failure(i))]_vars

\* ---------------------------------------------------------------- C26
\* the two trial keys agree, and the stored id carries the 'local-' prefix
C26_KeysAgree ==
    /\ hasUsedTrial(localStorage) <=> getTrialStudyId(localStorage) # NullId
    /\ hasUsedTrial(localStorage) => startsWithLocal(getTrialStudyId(localStorage))
\* the trial study id only changes to the id a guest's save has just returned
C26_SetBySave ==
    getTrialStudyId(localStorage)' # getTrialStudyId(localStorage)
    => /\ last'.op = "save" /\ last'.ok /\ last'.userId = "guest"
       /\ getTrialStudyId(localStorage)' = last'.retId
       /\ \E k \in DOMAIN localStudiesOf(localStorage)' :
             /\ localStudiesOf(localStorage)'[k].id = last'.retId
             /\ localStudiesOf(localStorage)'[k].userId = "guest"
\* C26: between event handlers the trial flag is set exactly when the trial
\* study id is, and the id is the 'local-' id save returned for the guest's
\* study.
C26_TrialKeysConsistent == []C26_KeysAgree /\ [][C26_SetBySave]_vars
\* the guest's trial has been used and both keys are set
C26_Witness ==
    /\ hasUsedTrial(localStorage)
    /\ getTrialStudyId(localStorage) = last.retId
    /\ last.op = "save" /\ last.userId = "guest"
    /\ guestGenerations = 1

\* ---------------------------------------------------------------- C27
\* C27: no two records of the local list share an id.
C27_LocalIdsUnique ==
    \A j, k \in DOMAIN localStudiesOf(localStorage) :
        localStudiesOf(localStorage)[j].id = localStudiesOf(localStorage)[k].id => j = k

\* ---------------------------------------------------------------- C28
\* C28: the enforceLimit of a generate action does not trim the study the
\* save of the same action created: when it returns the study is still
\* stored under the id save returned, and the action navigates to it.
C28_CreatedSurvivesTrim ==
    [][\A i \in DOMAIN pending :
          \A io \in IOs(uid(pending[i].user), namesOf(uid(pending[i].user))) :
             (/\ Limited(i, io) /\ enforceLimit(uid(pending[i].user), StudyLimit, io).ok
              /\ docsNamed(remote, uid(pending[i].user), pending[i].id) # {})
             => /\ route' = StudyPage(pending[i].id)
                /\ docsNamed(remote', uid(pending[i].user), pending[i].id) # {}]_vars

\* ---------------------------------------------------------------- C29
\* C29: with the remote configured, healthy or failing, every record
\* getAll(identity) returns has userId equal to that identity.
C29_OwnRecordsOnly ==
    configured =>
        \A u \in Callers : \A io \in IOs(u, {}) :
            \A k \in DOMAIN getAll(u, io).list : getAll(u, io).list[k].userId = u

\* ---------------------------------------------------------------- C30
\* the step completes the handleAnalyze call at position i: its step timer
\* is cleared
C30_EndsAt(i) ==
    /\ Len(pending') = Len(pending) - 1
    /\ pending' \in {dropAt(pending, i), unmounted(dropAt(pending, i))}
C30_Ends == \E i \in DOMAIN pending : C30_EndsAt(i)
\* a call that ends leaves the form that started it, if still mounted, not
\* loading
C30_EndsNotLoading ==
    \A i \in DOMAIN pending : (C30_EndsAt(i) /\ pending[i].live) => ~ui'.loading
\* C30: when every external call eventually returns or fails, a form that is
\* loading eventually stops loading, calls in flight keep ending until none
\* is left, and every call that ends leaves loading = false.
C30_NeverStuckLoading ==
    /\ ui.loading ~> ~ui.loading
    /\ <>[](pending = <<>>) \/ []<><<C30_Ends>>_vars
    /\ [][C30_EndsNotLoading]_vars
\* a call has failed in the form that started it: the message is shown and
\* the form is no longer loading
C30_Witness ==
    /\ route.path = "/"
    /\ ui.error = "Study generation failed."
    /\ ~ui.loading
    /\ pending = <<>>

====
